---- MODULE Spec2Model ----
(***************************************************************************)
(* Model of app.py: the Streamlit script of the Benefits Navigator.        *)
(*                                                                         *)
(* One script run is one step.  The state is what survives a run: the      *)
(* st.cache_resource memo of load_docs_to_gemini, st.session_state, the    *)
(* remote service's file listing, and what the run put on the page.  The   *)
(* remote calls a run issued are recorded in `run` so that properties can  *)
(* speak about them.                                                       *)
(***************************************************************************)
EXTENDS Integers, Sequences, FiniteSets, TLC

(* ------------------------------ bounds --------------------------------- *)

\* Longest remote file listing the environment starts with or grows to by itself.
MaxRemote == 2

\* A question is accepted while the transcript is shorter than this.
MaxMsgs == 2

(* ------------------------------ values --------------------------------- *)

\* Basenames of the PDF files that may lie in docs/.
Names == {"a.pdf", "b.pdf"}

\* Questions typed into st.chat_input.
Prompts == {"q1", "q2"}

\* response.text values of the remote model.
Texts == {"t1", "t2"}

\* str(e) of a failed generation request, character by character.
ErrTexts == { <<"e", "4", "2", "9">>, <<"4", "2", "5", "9">> }

\* The rate-limit marker looked for in str(e).
Marker == <<"4", "2", "9">>

\* A remote file handle: the service's identifier and the display name.
Handle(n, i) == [display_name |-> n, id |-> i]

NoFile == Handle("", 0)

\* glob.glob("docs/*.pdf") yields paths in the docs directory.
DocPath(n) == <<"docs", n>>

\* os.path.basename(path)
basename(path) == path[Len(path)]

\* Sequences over S without repetition (a directory holds a name once).
RECURSIVE Arrangements(_)
Arrangements(S) ==
    IF S = {} THEN {<<>>}
    ELSE UNION {{<<x>> \o t : t \in Arrangements(S \ {x})} : x \in S}

\* Every possible result of the directory scan.
Scans == UNION {Arrangements({DocPath(n) : n \in T}) : T \in SUBSET Names}

\* Remote listings of length k; ids are unique, display names need not be.
Listings(k) == {[i \in 1..k |-> Handle(f[i], i)] : f \in [1..k -> Names]}

\* Outcome of one client.models.generate_content call.
Ok(t) == [ok |-> TRUE, text |-> t, err |-> <<>>]

Fail(e) == [ok |-> FALSE, text |-> "", err |-> e]

Outcomes == {Ok(t) : t \in Texts} \cup {Fail(e) : e \in ErrTexts}

\* "429" in str(e): substring search.
Contains(s, m) == \E i \in 1..(Len(s) - Len(m) + 1) : SubSeq(s, i, i + Len(m) - 1) = m

IsPrefix(s, t) == Len(s) <= Len(t) /\ SubSeq(t, 1, Len(s)) = s

Last(s) == s[Len(s)]

(* ------------------------------ state ---------------------------------- *)

VARIABLES
    api_key,       \* os.getenv("GOOGLE_API_KEY") is set
    doc_paths,     \* what glob.glob("docs/*.pdf") returns
    remote,        \* the remote service's file listing
    nextId,        \* id the service gives to the next stored file
    external,      \* the remote listing was changed from outside the program
    attempts,      \* upload calls issued so far, per display name
    cache,         \* memo of load_docs_to_gemini: [built, value]
    docs_context,  \* module global bound at line 147 in the last run
    has_messages,  \* "messages" in st.session_state
    messages,      \* st.session_state.messages
    page,          \* what the last run displayed
    run            \* the last step: its trigger and the remote calls the program issued in it

vars == <<api_key, doc_paths, remote, nextId, external, attempts, cache,
          docs_context, has_messages, messages, page, run>>

(* ----------------------- load_docs_to_gemini --------------------------- *)

\* Outcome of iterating client.files.list(): the entries it yielded, and
\* whether the iteration ended normally or raised after them.
Listed(n, ok) == [ok |-> ok, n |-> n]

\* The lookup built from the whole remote listing, whatever was received.
existing_files_map_WholeListing(listing, lo) ==
    [n \in {listing[i].display_name : i \in DOMAIN listing} |->
        LET at == {i \in DOMAIN listing : listing[i].display_name = n}
        IN  listing[CHOOSE i \in at : \A j \in at : j <= i]]

\* Lines 107-113: display name -> handle over the entries received, a later
\* entry overwriting an earlier one of the same name; what was received
\* before an exception stays in the map.
existing_files_map(listing, lo) ==
    LET got == SubSeq(listing, 1, lo.n)
    IN  [n \in {got[i].display_name : i \in DOMAIN got} |->
            LET at == {i \in DOMAIN got : got[i].display_name = n}
            IN  got[CHOOSE i \in at : \A j \in at : j <= i]]

\* ProcessFile that uploads a file after reusing its remote handle.
ProcessFile_ReusesAndUploads(path, map, failing, st) ==
    LET file_name == basename(path)
        up == IF file_name \in failing
              THEN [st EXCEPT !.uploads = Append(@, [name |-> file_name, ok |-> FALSE]),
                              !.reports = Append(@, <<"Failed to load", file_name>>)]
              ELSE [st EXCEPT !.uploaded_files = Append(@, Handle(file_name, st.nextId)),
                              !.uploads = Append(@, [name |-> file_name, ok |-> TRUE]),
                              !.remote = Append(@, Handle(file_name, st.nextId)),
                              !.nextId = @ + 1]
    IN  IF file_name \in DOMAIN map
        THEN [up EXCEPT !.uploaded_files = <<map[file_name]>> \o @]
        ELSE up

\* ProcessFile that puts a reused handle in front of the result.
ProcessFile_ReusedFirst(path, map, failing, st) ==
    LET file_name == basename(path)
    IN  IF file_name \in DOMAIN map
        THEN [st EXCEPT !.uploaded_files = <<map[file_name]>> \o @]
        ELSE IF file_name \in failing
        THEN [st EXCEPT !.uploads = Append(@, [name |-> file_name, ok |-> FALSE]),
                        !.reports = Append(@, <<"Failed to load", file_name>>)]
        ELSE [st EXCEPT !.uploaded_files = Append(@, Handle(file_name, st.nextId)),
                        !.uploads = Append(@, [name |-> file_name, ok |-> TRUE]),
                        !.remote = Append(@, Handle(file_name, st.nextId)),
                        !.nextId = @ + 1]

\* ProcessFile without the lookup test of line 121: every file is uploaded.
ProcessFile_AlwaysUploads(path, map, failing, st) ==
    LET file_name == basename(path)
    IN  IF file_name \in failing
        THEN [st EXCEPT !.uploads = Append(@, [name |-> file_name, ok |-> FALSE]),
                        !.reports = Append(@, <<"Failed to load", file_name>>)]
        ELSE [st EXCEPT !.uploaded_files = Append(@, Handle(file_name, st.nextId)),
                        !.uploads = Append(@, [name |-> file_name, ok |-> TRUE]),
                        !.remote = Append(@, Handle(file_name, st.nextId)),
                        !.nextId = @ + 1]

\* Lines 117-141, one iteration of the loop.  st carries uploaded_files, the
\* upload calls issued, the remote listing, the next remote id and the
\* per-file errors written to the sidebar.  failing is the set of names
\* whose open/upload raises.
ProcessFile(path, map, failing, st) ==
    LET file_name == basename(path)
    IN  IF file_name \in DOMAIN map
        THEN [st EXCEPT !.uploaded_files = Append(@, map[file_name])]
        ELSE IF file_name \in failing
        THEN [st EXCEPT !.uploads = Append(@, [name |-> file_name, ok |-> FALSE]),
                        !.reports = Append(@, <<"Failed to load", file_name>>)]
        ELSE [st EXCEPT !.uploaded_files = Append(@, Handle(file_name, st.nextId)),
                        !.uploads = Append(@, [name |-> file_name, ok |-> TRUE]),
                        !.remote = Append(@, Handle(file_name, st.nextId)),
                        !.nextId = @ + 1]

RECURSIVE UploadLoop_StopsAtFailure(_, _, _, _)
\* The loop left at the first upload that raises, as without the try of
\* lines 120-141 around each file.
UploadLoop_StopsAtFailure(paths, map, failing, st) ==
    IF paths = <<>> THEN st
    ELSE LET next == ProcessFile(Head(paths), map, failing, st)
         IN  IF Len(next.reports) > Len(st.reports) THEN next
             ELSE UploadLoop_StopsAtFailure(Tail(paths), map, failing, next)

\* Line 116: for path in doc_paths.
RECURSIVE UploadLoop(_, _, _, _)
UploadLoop(paths, map, failing, st) ==
    IF paths = <<>> THEN st
    ELSE UploadLoop(Tail(paths), map, failing, ProcessFile(Head(paths), map, failing, st))

\* load_docs_to_gemini without the early return of lines 99-101: the listing
\* is requested even when the scan found nothing.
load_docs_to_gemini_ListsFirst(paths, listing, id0, lo, failing) ==
    UploadLoop(paths, existing_files_map(listing, lo), failing,
               [uploaded_files |-> <<>>, lists |-> <<lo>>,
                uploads |-> <<>>, remote |-> listing, nextId |-> id0,
                reports |-> IF paths = <<>>
                            THEN << <<"No PDF files found">> >>
                            ELSE IF lo.ok THEN <<>>
                                 ELSE << <<"Could not list existing files">> >>])

\* Lines 96-144: the body of load_docs_to_gemini.
load_docs_to_gemini(paths, listing, id0, lo, failing) ==
    IF paths = <<>>
    THEN [uploaded_files |-> <<>>, lists |-> <<>>, uploads |-> <<>>,
          remote |-> listing, nextId |-> id0,
          reports |-> << <<"No PDF files found">> >>]
    ELSE UploadLoop(paths, existing_files_map(listing, lo), failing,
                    [uploaded_files |-> <<>>, lists |-> <<lo>>,
                     uploads |-> <<>>, remote |-> listing, nextId |-> id0,
                     reports |-> IF lo.ok THEN <<>> ELSE << <<"Could not list existing files">> >>])

\* load_docs_to_gemini without the decorator: the body runs on every call.
cache_resource_Rebuilds(memo, paths, listing, id0, lo, failing) ==
    load_docs_to_gemini(paths, listing, id0, lo, failing)

\* A memo that takes an empty result for no result, as a truth test of the
\* memoized list would.
cache_resource_RetriesEmpty(memo, paths, listing, id0, lo, failing) ==
    IF memo.built /\ memo.value # <<>>
    THEN [uploaded_files |-> memo.value, lists |-> <<>>, uploads |-> <<>>,
          remote |-> listing, nextId |-> id0, reports |-> <<>>]
    ELSE load_docs_to_gemini(paths, listing, id0, lo, failing)

\* Line 90: @st.cache_resource.  The body runs only while nothing is memoized.
cache_resource(memo, paths, listing, id0, lo, failing) ==
    IF memo.built
    THEN [uploaded_files |-> memo.value, lists |-> <<>>, uploads |-> <<>>,
          remote |-> listing, nextId |-> id0, reports |-> <<>>]
    ELSE load_docs_to_gemini(paths, listing, id0, lo, failing)

\* The failures of the listing and upload calls are inputs of a run that
\* builds the cache; a run that finds the memo issues no call that could fail.
ListOutcomes ==
    IF cache.built THEN {Listed(Len(remote), TRUE)}
    ELSE {Listed(Len(remote), TRUE)}
            \cup {Listed(k, FALSE) : k \in 0..Len(remote)}

UploadFailures == IF cache.built THEN {{}} ELSE SUBSET Names

(* --------------------------- the chat loop ----------------------------- *)

Preamble ==
    << "You are a strict Medicaid Eligibility Assistant. Use the attached policy documents to answer.",
       "Cite the specific document name or section when possible.",
       "If the answer depends on a checked box, explicitly state that." >>

TextPart(t) == [kind |-> "text", text |-> t, file |-> NoFile]

FilePart(h) == [kind |-> "file", text |-> "", file |-> h]

\* content_payload with the question appended before the documents.
content_payload_QuestionFirst(docs, prompt) ==
    [i \in 1..Len(Preamble) |-> TextPart(Preamble[i])]
        \o <<TextPart(prompt)>>
        \o [i \in 1..Len(docs) |-> FilePart(docs[i])]

\* Lines 170-176: content_payload.
content_payload(docs, prompt) ==
    [i \in 1..Len(Preamble) |-> TextPart(Preamble[i])]
        \o [i \in 1..Len(docs) |-> FilePart(docs[i])]
        \o <<TextPart(prompt)>>

Turn(role, content) == [role |-> role, content |-> content]

Shown(kind, text) == [kind |-> kind, text |-> text]

\* The retry branch taken for every exception.
IsRateLimit_AnyError(e) == TRUE

\* Line 190: the test that selects the retry branch.
IsRateLimit(e) == Contains(e, Marker)

\* Retry whose failure branch keeps only the current question in the store.
Retry_DropsHistory(msgs, payload, o1, o2) ==
    IF o2.ok
    THEN [messages |-> Append(msgs, Turn("assistant", o2.text)),
          placeholder |-> Shown("markdown", <<o2.text>>),
          gens |-> <<payload, payload>>, replies |-> <<o1, o2>>, error |-> ""]
    ELSE [messages |-> <<Last(msgs)>>,
          placeholder |-> Shown("error", <<"System busy. Please try again in a moment.">>),
          gens |-> <<payload, payload>>, replies |-> <<o1, o2>>, error |-> ""]

\* Retry that gives up without sending the second request.
Retry_GivesUp(msgs, payload, o1, o2) ==
    [messages |-> msgs,
     placeholder |-> Shown("error", <<"System busy. Please try again in a moment.">>),
     gens |-> <<payload>>, replies |-> <<o1>>, error |-> ""]

\* Lines 193-201: the retry, sending content_payload again, and its bare
\* except.  o1 is the failure that led here.
Retry(msgs, payload, o1, o2) ==
    IF o2.ok
    THEN [messages |-> Append(msgs, Turn("assistant", o2.text)),
          placeholder |-> Shown("markdown", <<o2.text>>),
          gens |-> <<payload, payload>>, replies |-> <<o1, o2>>, error |-> ""]
    ELSE [messages |-> msgs,
          placeholder |-> Shown("error", <<"System busy. Please try again in a moment.">>),
          gens |-> <<payload, payload>>, replies |-> <<o1, o2>>, error |-> ""]

\* ChatLoop without the docs_context test of line 163.
ChatLoop_NoGuard(docs, prompt, msgs, o1, o2) ==
    LET payload == content_payload(docs, prompt)
    IN  IF o1.ok
        THEN [messages |-> Append(msgs, Turn("assistant", o1.text)),
              placeholder |-> Shown("markdown", <<o1.text>>),
              gens |-> <<payload>>, replies |-> <<o1>>, error |-> ""]
        ELSE IF IsRateLimit(o1.err)
        THEN Retry(msgs, payload, o1, o2)
        ELSE [messages |-> msgs,
              placeholder |-> Shown("error", <<"An error occurred: ">> \o o1.err),
              gens |-> <<payload>>, replies |-> <<o1>>, error |-> ""]

\* ChatLoop that stores the error text as an assistant turn.
ChatLoop_RecordsError(docs, prompt, msgs, o1, o2) ==
    LET payload == content_payload(docs, prompt)
        busy == <<"System busy. Please try again in a moment.">>
    IN  IF docs = <<>>
        THEN [messages |-> msgs, placeholder |-> Shown("none", <<>>),
              gens |-> <<>>, replies |-> <<>>,
              error |-> "System Error: No documents loaded."]
        ELSE IF o1.ok
        THEN [messages |-> Append(msgs, Turn("assistant", o1.text)),
              placeholder |-> Shown("markdown", <<o1.text>>),
              gens |-> <<payload>>, replies |-> <<o1>>, error |-> ""]
        ELSE IF IsRateLimit(o1.err)
        THEN IF o2.ok
             THEN Retry(msgs, payload, o1, o2)
             ELSE [Retry(msgs, payload, o1, o2) EXCEPT
                      !.messages = Append(msgs, Turn("assistant", "System busy"))]
        ELSE [messages |-> Append(msgs, Turn("assistant", "An error occurred")),
              placeholder |-> Shown("error", <<"An error occurred: ">> \o o1.err),
              gens |-> <<payload>>, replies |-> <<o1>>, error |-> ""]

\* Lines 163-205: msgs already holds the user turn; o1 and o2 are the
\* outcomes of the first and of the second generation request.
ChatLoop(docs, prompt, msgs, o1, o2) ==
    LET payload == content_payload(docs, prompt)
    IN  IF docs = <<>>
        THEN [messages |-> msgs, placeholder |-> Shown("none", <<>>),
              gens |-> <<>>, replies |-> <<>>,
              error |-> "System Error: No documents loaded."]
        ELSE IF o1.ok
        THEN [messages |-> Append(msgs, Turn("assistant", o1.text)),
              placeholder |-> Shown("markdown", <<o1.text>>),
              gens |-> <<payload>>, replies |-> <<o1>>, error |-> ""]
        ELSE IF IsRateLimit(o1.err)
        THEN Retry(msgs, payload, o1, o2)
        ELSE [messages |-> msgs,
              placeholder |-> Shown("error", <<"An error occurred: ">> \o o1.err),
              gens |-> <<payload>>, replies |-> <<o1>>, error |-> ""]

\* The second request's outcome is an input only when a second request is issued.
RetryOutcomes(o1) == IF ~o1.ok /\ IsRateLimit(o1.err) THEN Outcomes ELSE {o1}

\* The question shown but not stored.
AppendUser_Skips(hist, prompt) == hist

\* Line 161: the user turn appended before the chat loop.
AppendUser(hist, prompt) == Append(hist, Turn("user", prompt))

\* The store initialised on every run, without the test of line 150.
InitHistory_Forgets(present, msgs) == <<>>

\* Lines 150-151.
InitHistory(present, msgs) == IF present THEN msgs ELSE <<>>

\* Reset that removes only the last turn.
ResetConversation_DropsLast(msgs) ==
    IF msgs = <<>> THEN <<>> ELSE SubSeq(msgs, 1, Len(msgs) - 1)

\* Line 219.
ResetConversation(msgs) == <<>>

\* Lines 209-214: the display names listed in the sidebar.
Sidebar(docs) == [i \in 1..Len(docs) |-> docs[i].display_name]

\* The upload calls of a run added to the calls issued before it.
Tally(count, uploads) ==
    [n \in Names |->
        count[n] + Cardinality({i \in DOMAIN uploads : uploads[i].name = n})]

(* ------------------------------ actions -------------------------------- *)

NoShown == Shown("none", <<>>)

\* The record of a step in which the program issued no remote call.
Quiet(op) ==
    [op |-> op, prompt |-> "", lists |-> <<>>, uploads |-> <<>>,
     reports |-> <<>>, gens |-> <<>>, replies |-> <<>>, cleared |-> 0]

Init ==
    /\ api_key \in BOOLEAN
    /\ doc_paths \in Scans
    /\ remote \in UNION {Listings(k) : k \in 0..MaxRemote}
    /\ nextId = Len(remote) + 1
    /\ external = FALSE
    /\ attempts = [n \in Names |-> 0]
    /\ cache = [built |-> FALSE, value |-> <<>>]
    /\ docs_context = <<>>
    /\ has_messages = FALSE
    /\ messages = <<>>
    /\ page = [loaded |-> FALSE, history |-> <<>>, placeholder |-> NoShown,
               error |-> "", sidebar |-> <<>>]
    /\ run = Quiet("none")

\* The credential check without st.stop(): the error is shown and the run
\* goes on as a page load.
KeyMissing_Continues ==
    /\ ~api_key
    /\ LET ld == cache_resource(cache, doc_paths, remote, nextId,
                                Listed(Len(remote), TRUE), {})
           hist == InitHistory(has_messages, messages)
       IN  /\ cache' = [built |-> TRUE, value |-> ld.uploaded_files]
           /\ docs_context' = ld.uploaded_files
           /\ remote' = ld.remote
           /\ nextId' = ld.nextId
           /\ attempts' = Tally(attempts, ld.uploads)
           /\ has_messages' = TRUE
           /\ messages' = hist
           /\ page' = [loaded |-> TRUE, history |-> hist, placeholder |-> NoShown,
                       error |-> "Error: GOOGLE_API_KEY not found. Please check your .env file.",
                       sidebar |-> Sidebar(ld.uploaded_files)]
           /\ run' = [Quiet("load") EXCEPT !.lists = ld.lists, !.uploads = ld.uploads,
                                           !.reports = ld.reports]
    /\ UNCHANGED <<api_key, doc_paths, external>>

\* Lines 13-16: without the credential the run stops before anything else.
KeyMissing ==
    /\ ~api_key
    /\ page' = [page EXCEPT !.error = "Error: GOOGLE_API_KEY not found. Please check your .env file."]
    /\ run' = Quiet("stop")
    /\ UNCHANGED <<api_key, doc_paths, remote, nextId, external, attempts, cache,
                   docs_context, has_messages, messages>>

\* A run with no widget triggered: the first page load, or a plain rerun.
PageLoad(lo, failing) ==
    /\ api_key
    /\ LET ld == cache_resource(cache, doc_paths, remote, nextId, lo, failing)
           hist == InitHistory(has_messages, messages)
       IN  /\ cache' = [built |-> TRUE, value |-> ld.uploaded_files]
           /\ docs_context' = ld.uploaded_files
           /\ remote' = ld.remote
           /\ nextId' = ld.nextId
           /\ attempts' = Tally(attempts, ld.uploads)
           /\ has_messages' = TRUE
           /\ messages' = hist
           /\ page' = [loaded |-> TRUE, history |-> hist, placeholder |-> NoShown,
                       error |-> "", sidebar |-> Sidebar(ld.uploaded_files)]
           /\ run' = [op |-> "load", prompt |-> "", lists |-> ld.lists,
                      uploads |-> ld.uploads, reports |-> ld.reports,
                      gens |-> <<>>, replies |-> <<>>, cleared |-> 0]
    /\ UNCHANGED <<api_key, doc_paths, external>>

\* A run triggered by a question in st.chat_input (lines 158-205).
Ask(prompt, lo, failing, o1, o2) ==
    /\ api_key
    /\ page.loaded
    /\ Len(messages) < MaxMsgs
    /\ LET ld == cache_resource(cache, doc_paths, remote, nextId, lo, failing)
           hist == InitHistory(has_messages, messages)
           r == ChatLoop(ld.uploaded_files, prompt, AppendUser(hist, prompt), o1, o2)
       IN  /\ cache' = [built |-> TRUE, value |-> ld.uploaded_files]
           /\ docs_context' = ld.uploaded_files
           /\ remote' = ld.remote
           /\ nextId' = ld.nextId
           /\ attempts' = Tally(attempts, ld.uploads)
           /\ has_messages' = TRUE
           /\ messages' = r.messages
           /\ page' = [loaded |-> TRUE, history |-> hist, placeholder |-> r.placeholder,
                       error |-> r.error, sidebar |-> Sidebar(ld.uploaded_files)]
           /\ run' = [op |-> "ask", prompt |-> prompt, lists |-> ld.lists,
                      uploads |-> ld.uploads, reports |-> ld.reports,
                      gens |-> r.gens,
                      replies |-> r.replies, cleared |-> 0]
    /\ UNCHANGED <<api_key, doc_paths, external>>

\* Reset that also drops the memo of load_docs_to_gemini, so that the rerun
\* builds it again.
Reset_ClearsCache(lo, failing) ==
    /\ api_key
    /\ page.loaded
    /\ LET ld1 == cache_resource(cache, doc_paths, remote, nextId, lo, failing)
           memo == [built |-> FALSE, value |-> <<>>]
           ld2 == cache_resource(memo, doc_paths, ld1.remote, ld1.nextId, lo, failing)
           hist == InitHistory(TRUE, ResetConversation(InitHistory(has_messages, messages)))
       IN  /\ cache' = [built |-> TRUE, value |-> ld2.uploaded_files]
           /\ docs_context' = ld2.uploaded_files
           /\ remote' = ld2.remote
           /\ nextId' = ld2.nextId
           /\ attempts' = Tally(attempts, ld1.uploads \o ld2.uploads)
           /\ has_messages' = TRUE
           /\ messages' = hist
           /\ page' = [loaded |-> TRUE, history |-> hist, placeholder |-> NoShown,
                       error |-> "", sidebar |-> Sidebar(ld2.uploaded_files)]
           /\ run' = [op |-> "reset", prompt |-> "", lists |-> ld1.lists \o ld2.lists,
                      uploads |-> ld1.uploads \o ld2.uploads,
                      reports |-> ld1.reports \o ld2.reports,
                      gens |-> <<>>, replies |-> <<>>,
                      cleared |-> Len(InitHistory(has_messages, messages))]
    /\ UNCHANGED <<api_key, doc_paths, external>>

\* A run triggered by the Reset Conversation button (lines 218-220): the run
\* clears the store and st.rerun() starts the script again from the top.
Reset(lo, failing) ==
    /\ api_key
    /\ page.loaded
    /\ LET ld1 == cache_resource(cache, doc_paths, remote, nextId, lo, failing)
           memo == [built |-> TRUE, value |-> ld1.uploaded_files]
           ld2 == cache_resource(memo, doc_paths, ld1.remote, ld1.nextId, lo, failing)
           hist == InitHistory(TRUE, ResetConversation(InitHistory(has_messages, messages)))
       IN  /\ cache' = [built |-> TRUE, value |-> ld2.uploaded_files]
           /\ docs_context' = ld2.uploaded_files
           /\ remote' = ld2.remote
           /\ nextId' = ld2.nextId
           /\ attempts' = Tally(attempts, ld1.uploads \o ld2.uploads)
           /\ has_messages' = TRUE
           /\ messages' = hist
           /\ page' = [loaded |-> TRUE, history |-> hist, placeholder |-> NoShown,
                       error |-> "", sidebar |-> Sidebar(ld2.uploaded_files)]
           /\ run' = [op |-> "reset", prompt |-> "", lists |-> ld1.lists \o ld2.lists,
                      uploads |-> ld1.uploads \o ld2.uploads,
                      reports |-> ld1.reports \o ld2.reports,
                      gens |-> <<>>, replies |-> <<>>,
                      cleared |-> Len(InitHistory(has_messages, messages))]
    /\ UNCHANGED <<api_key, doc_paths, external>>

\* The remote service is shared: a file is stored there from elsewhere.  One
\* outside change per behaviour is modelled.
ExternalAdd(n) ==
    /\ ~external
    /\ Len(remote) < MaxRemote
    /\ remote' = Append(remote, Handle(n, nextId))
    /\ nextId' = nextId + 1
    /\ external' = TRUE
    /\ run' = Quiet("external")
    /\ UNCHANGED <<api_key, doc_paths, attempts, cache, docs_context,
                   has_messages, messages, page>>

\* ... or a stored file is deleted or expires.
ExternalDelete(i) ==
    /\ ~external
    /\ i \in DOMAIN remote
    /\ remote' = SubSeq(remote, 1, i - 1) \o SubSeq(remote, i + 1, Len(remote))
    /\ external' = TRUE
    /\ run' = Quiet("external")
    /\ UNCHANGED <<api_key, doc_paths, nextId, attempts, cache, docs_context,
                   has_messages, messages, page>>

Next ==
    \/ KeyMissing
    \/ \E lo \in ListOutcomes, failing \in UploadFailures : PageLoad(lo, failing)
    \/ \E prompt \in Prompts, lo \in ListOutcomes, failing \in UploadFailures,
          o1 \in Outcomes :
            \E o2 \in RetryOutcomes(o1) : Ask(prompt, lo, failing, o1, o2)
    \/ \E lo \in ListOutcomes, failing \in UploadFailures : Reset(lo, failing)
    \/ \E n \in Names : ExternalAdd(n)
    \/ \E i \in 1..(MaxRemote + Cardinality(Names)) : ExternalDelete(i)

Spec == Init /\ [][Next]_vars

(* ---------------------------- properties ------------------------------ *)

Range(s) == {s[i] : i \in DOMAIN s}

\* Display names of the local document set D.
LocalNames == {basename(doc_paths[i]) : i \in DOMAIN doc_paths}

\* Positions of the handles (or upload calls) that carry display name n.
HandlesOf(n, hs) == {i \in DOMAIN hs : hs[i].display_name = n}

UploadsOf(n, ups) == {i \in DOMAIN ups : ups[i].name = n}

\* The step in which load_docs_to_gemini runs its body.
BuildStep == ~cache.built /\ cache'.built

\* A step that processes a question.
AskStep == run'.op = "ask" /\ messages' # messages

\* The last step processed a question with documents loaded and the last
\* generation request of that question failed.
FailedTurn == run.op = "ask" /\ run.replies # <<>> /\ ~Last(run.replies).ok

\* C1 as stated: after the cache build every display name of D has exactly
\* one handle in the result; a name listed remotely gets the remote handle
\* and no upload, any other name gets the handle of one upload.
C1_ExactlyOneHandlePerName ==
    [][BuildStep =>
        \A n \in LocalNames :
            /\ Cardinality(HandlesOf(n, docs_context')) = 1
            /\ LET h == docs_context'[CHOOSE i \in HandlesOf(n, docs_context') : TRUE]
               IN  IF HandlesOf(n, remote) # {}
                   THEN h \in Range(remote) /\ UploadsOf(n, run'.uploads) = {}
                   ELSE /\ Cardinality(UploadsOf(n, run'.uploads)) = 1
                        /\ h \in Range(remote') \ Range(remote)]_vars

\* C1 amended: the result holds handles of names of D only; a name found
\* among the listing entries received (all of R when the listing succeeded)
\* contributes the remote handle and is not uploaded; every other name is
\* uploaded exactly once and contributes the handle of that upload if it
\* succeeded and nothing if it failed.
C1_HandlePerLoadedName ==
    [][BuildStep =>
        /\ \A i \in DOMAIN docs_context' : docs_context'[i].display_name \in LocalNames
        /\ \A n \in LocalNames :
            LET hs == HandlesOf(n, docs_context')
                ups == UploadsOf(n, run'.uploads)
            IN  IF HandlesOf(n, SubSeq(remote, 1, run'.lists[1].n)) # {}
                THEN /\ Cardinality(hs) = 1
                     /\ \A i \in hs : docs_context'[i] \in Range(remote)
                     /\ ups = {}
                ELSE /\ Cardinality(ups) = 1
                     /\ \A u \in ups :
                          IF run'.uploads[u].ok
                          THEN /\ Cardinality(hs) = 1
                               /\ \A i \in hs :
                                    docs_context'[i] \in Range(remote') \ Range(remote)
                          ELSE hs = {}]_vars

\* A build that reused one remote handle and uploaded the other file.
C1_Witness ==
    /\ run.op = "load"
    /\ Len(run.lists) = 1
    /\ run.lists[1].ok
    /\ Len(run.uploads) = 1
    /\ run.uploads[1].ok
    /\ Len(docs_context) = 2

\* C2: a first generation request that fails with the marker 429 in its
\* error text is followed by exactly one more request with the same payload,
\* and a successful retry's text is the assistant turn appended.
C2_RetryOnceOnRateLimit ==
    (run.op = "ask" /\ run.replies # <<>> /\ ~run.replies[1].ok
        /\ Contains(run.replies[1].err, Marker))
    => /\ Len(run.gens) = 2
       /\ Len(run.replies) = 2
       /\ run.gens[2] = run.gens[1]
       /\ run.replies[2].ok => Last(messages) = Turn("assistant", run.replies[2].text)

\* A retry that succeeded after an error whose text merely contains 429.
C2_Witness ==
    /\ run.op = "ask"
    /\ Len(run.gens) = 2
    /\ run.replies[1].err = <<"e", "4", "2", "9">>
    /\ run.replies[2].ok
    /\ Last(messages) = Turn("assistant", "t2")

PayloadFiles(payload) ==
    LET fs == SelectSeq(payload, LAMBDA x : x.kind = "file")
    IN  [i \in 1..Len(fs) |-> fs[i].file]

\* C4: once load_docs_to_gemini has been invoked, every later step leaves
\* the memoized sequence as it is, every later run binds docs_context to it,
\* and no later run issues a list-files or an upload call, whatever happened
\* to the remote listing.
C4_BuiltOnce ==
    [][cache.built =>
        /\ cache' = cache
        /\ run'.op # "external" => docs_context' = cache.value
        /\ run'.lists = <<>>
        /\ run'.uploads = <<>>]_vars

\* A question answered from the memo after a memoized handle was deleted
\* remotely.
C4_Witness ==
    /\ cache.built
    /\ run.op = "ask"
    /\ run.gens # <<>>
    /\ \E i \in DOMAIN cache.value : cache.value[i] \notin Range(remote)

\* C5: the first request of a question asked with documents loaded is the
\* three preamble texts, then the memoized handles in their order, then the
\* question; on success the store gains the user turn and then the assistant
\* turn with the response text.
C5_PayloadAndTurns ==
    [][(AskStep /\ cache.value # <<>>) =>
        /\ run'.gens # <<>>
        /\ LET p == run'.gens[1]
               k == Len(cache.value)
           IN  /\ Len(p) = Len(Preamble) + k + 1
               /\ \A i \in 1..Len(Preamble) :
                    p[i].kind = "text" /\ p[i].text = Preamble[i]
               /\ \A i \in 1..k :
                    p[Len(Preamble) + i].kind = "file"
                        /\ p[Len(Preamble) + i].file = cache.value[i]
               /\ Last(p).kind = "text" /\ Last(p).text = run'.prompt
        /\ run'.replies[1].ok =>
              messages' = messages \o <<Turn("user", run'.prompt),
                                        Turn("assistant", run'.replies[1].text)>>]_vars

\* A second question answered at the first attempt with two documents loaded.
C5_Witness ==
    /\ run.op = "ask"
    /\ Len(cache.value) = 2
    /\ Len(run.gens) = 1
    /\ run.replies[1].ok
    /\ Len(messages) >= 3
    /\ Last(messages).role = "assistant"

\* C6: a first request that fails with an error text without the marker is
\* the only request of that question, and the error text is shown.
C6_NoRetryOnOtherError ==
    (run.op = "ask" /\ run.replies # <<>> /\ ~run.replies[1].ok
        /\ ~Contains(run.replies[1].err, Marker))
    => /\ Len(run.gens) = 1
       /\ Len(run.replies) = 1
       /\ page.placeholder = Shown("error", <<"An error occurred: ">> \o run.replies[1].err)

\* A question that failed with an error text holding 4, 2 and 9 apart.
C6_Witness ==
    /\ run.op = "ask"
    /\ Len(run.gens) = 1
    /\ run.replies[1].err = <<"4", "2", "5", "9">>

\* C7: a question that fails terminally leaves the memo as it was and the
\* earlier turns in place, and the question asked next is sent with the same
\* handles and answered normally.
C7_FailureAffectsTurnOnly ==
    [][/\ (AskStep /\ run'.replies # <<>> /\ ~Last(run'.replies).ok) =>
            /\ cache' = cache
            /\ docs_context' = cache.value
            /\ IsPrefix(messages, messages')
       /\ (FailedTurn /\ AskStep) =>
            /\ run'.gens # <<>>
            /\ PayloadFiles(run'.gens[1]) = PayloadFiles(run.gens[1])
            /\ PayloadFiles(run'.gens[1]) = cache.value
            /\ IsPrefix(Append(messages, Turn("user", run'.prompt)), messages')
            /\ Last(run'.replies).ok =>
                  Last(messages') = Turn("assistant", Last(run'.replies).text)]_vars

\* A question answered right after one whose retry failed too: the store
\* holds the failed question, then the next question and its answer.
C7_Witness ==
    /\ run.op = "ask"
    /\ Len(messages) = 3
    /\ messages[1].role = "user"
    /\ messages[2].role = "user"
    /\ messages[3].role = "assistant"
    /\ page.history = <<messages[1]>>

\* C8: with an empty docs/ directory the build returns the empty sequence,
\* the sidebar lists no document, and a question gets the 'No documents
\* loaded' error without any generation request.
C8_EmptyCorpusDisablesAnswers ==
    (doc_paths = <<>> /\ cache.built)
    => /\ cache.value = <<>>
       /\ docs_context = <<>>
       /\ page.sidebar = <<>>
       /\ run.op = "ask" =>
            /\ run.gens = <<>>
            /\ page.error = "System Error: No documents loaded."
            /\ page.placeholder = NoShown

\* A question asked with an empty docs/ directory.
C8_Witness ==
    /\ doc_paths = <<>>
    /\ run.op = "ask"
    /\ Last(messages) = Turn("user", run.prompt)

\* C9: every step leaves the old transcript as a prefix of the new one, or
\* is a reset that leaves it empty.
C9_AppendOnlyExceptReset ==
    [][\/ IsPrefix(messages, messages')
       \/ (messages' = <<>> /\ run'.op = "reset")]_vars

\* A reset that cleared a store holding turns.
C9_Witness ==
    /\ run.op = "reset"
    /\ run.cleared >= 2
    /\ messages = <<>>

\* The store is empty and shown empty after a reset, the run that follows a
\* reset renders an empty history, and a reset that follows a reset changes
\* nothing.
ResetObserved ==
    run.op = "reset" => (has_messages /\ messages = <<>> /\ page.history = <<>>)

ResetStep ==
    /\ (run.op = "reset" /\ run'.op \in {"load", "ask", "reset"}) => page'.history = <<>>
    /\ (run.op = "reset" /\ run'.op = "reset") =>
          /\ messages' = messages
          /\ page' = page
          /\ UNCHANGED <<has_messages, cache, docs_context, remote>>

\* C10: reset empties the store whatever it held, the next render shows the
\* empty store, and a second reset leaves the state of the first.
C10_ResetClearsIdempotent == []ResetObserved /\ [][ResetStep]_vars

\* A reset that cleared a store of three turns.
C10_Witness ==
    /\ run.op = "reset"
    /\ run.cleared = 3
    /\ messages = <<>>
    /\ page.history = <<>>

\* Display names whose upload raised in the calls ups.
FailedNames(ups) == {ups[i].name : i \in {j \in DOMAIN ups : ~ups[j].ok}}

\* C11: an upload that raises removes only that file from the result; every
\* local file is still processed (reused or sent for upload), each failure
\* is reported in the sidebar, and the result holds a handle for exactly the
\* names that did not fail.
C11_UploadFailureSkipsFileOnly ==
    [][BuildStep =>
        /\ \A n \in LocalNames :
              HandlesOf(n, docs_context') # {} \/ UploadsOf(n, run'.uploads) # {}
        /\ {docs_context'[i].display_name : i \in DOMAIN docs_context'}
              = LocalNames \ FailedNames(run'.uploads)
        /\ \A n \in FailedNames(run'.uploads) :
              \E i \in DOMAIN run'.reports : run'.reports[i] = <<"Failed to load", n>>
        /\ cache'.value = docs_context']_vars

\* A build whose first upload raised and whose second upload succeeded.
C11_Witness ==
    /\ run.op = "load"
    /\ Len(run.uploads) = 2
    /\ ~run.uploads[1].ok
    /\ run.uploads[2].ok
    /\ Len(cache.value) = 1
    /\ cache.value[1].display_name = run.uploads[2].name

\* The build's listing call raised.
ListingFailed(r) == Len(r.lists) = 1 /\ ~r.lists[1].ok

\* C12 as stated: when the listing fails no remote handle is reused and every
\* local file is sent for upload.
C12_FailedListingUploadsAll ==
    [][(BuildStep /\ ListingFailed(run')) =>
        /\ \A i \in DOMAIN docs_context' : docs_context'[i] \notin Range(remote)
        /\ \A n \in LocalNames : Cardinality(UploadsOf(n, run'.uploads)) = 1]_vars

\* C12 amended: when the listing raises, the lookup holds the entries
\* received before the exception and nothing else; it is empty, with every
\* local file sent for upload and no remote handle reused, when the
\* exception comes before the first entry; otherwise exactly the local names
\* among the received entries are reused and every other local file is sent
\* for upload.  The failure is reported in the sidebar.
C12_FailedListingKeepsReceived ==
    [][(BuildStep /\ ListingFailed(run')) =>
        LET got == SubSeq(remote, 1, run'.lists[1].n)
        IN  /\ \A n \in LocalNames :
                  IF HandlesOf(n, got) = {}
                  THEN /\ Cardinality(UploadsOf(n, run'.uploads)) = 1
                       /\ \A i \in HandlesOf(n, docs_context') :
                            docs_context'[i] \notin Range(remote)
                  ELSE /\ UploadsOf(n, run'.uploads) = {}
                       /\ \A i \in HandlesOf(n, docs_context') :
                            docs_context'[i] \in Range(got)
            /\ run'.lists[1].n = 0 =>
                  /\ \A i \in DOMAIN docs_context' : docs_context'[i] \notin Range(remote)
                  /\ Len(run'.uploads) = Len(doc_paths)
            /\ run'.reports # <<>>
            /\ run'.reports[1] = <<"Could not list existing files">>]_vars

\* A build whose listing raised after its first entry: that entry's handle
\* was reused, and the file listed second remotely was uploaded again.
C12_Witness ==
    /\ run.op = "load"
    /\ ListingFailed(run)
    /\ run.lists[1].n = 1
    /\ ~external
    /\ Len(remote) = 3
    /\ remote[1] \in Range(cache.value)
    /\ remote[3] \in Range(cache.value)
    /\ remote[3].display_name = remote[2].display_name
    /\ run.uploads = <<[name |-> remote[2].display_name, ok |-> TRUE]>>

\* Position of display name n in the directory scan.
ScanPos(n) == CHOOSE k \in DOMAIN doc_paths : basename(doc_paths[k]) = n

\* C13: the handles of the result stand in the order in which the scan
\* yielded their files, whether reused or uploaded, and the uploads were
\* issued in that order too.
C13_ResultInScanOrder ==
    [][BuildStep =>
        /\ \A i, j \in DOMAIN docs_context' :
              i < j => ScanPos(docs_context'[i].display_name)
                          < ScanPos(docs_context'[j].display_name)
        /\ \A i, j \in DOMAIN run'.uploads :
              i < j => ScanPos(run'.uploads[i].name) < ScanPos(run'.uploads[j].name)]_vars

\* Local a.pdf then b.pdf with a.pdf held remotely: only b.pdf was uploaded
\* and the result is a.pdf's remote handle, then b.pdf's new handle.
C13_Witness ==
    /\ run.op = "load"
    /\ doc_paths = <<DocPath("a.pdf"), DocPath("b.pdf")>>
    /\ run.uploads = <<[name |-> "b.pdf", ok |-> TRUE]>>
    /\ Len(cache.value) = 2
    /\ cache.value[1] = Handle("a.pdf", 1)
    /\ cache.value[2].display_name = "b.pdf"
    /\ cache.value[2].id > 1

\* C14: no generation request of a run, first attempt or retry, carries two
\* file handles with the same display name.
C14_OneHandlePerNameInPayload ==
    \A g \in DOMAIN run.gens :
        LET fs == PayloadFiles(run.gens[g])
        IN  \A i, j \in DOMAIN fs : fs[i].display_name = fs[j].display_name => i = j

\* A retried question after a build over a listing that held a.pdf twice:
\* both requests carry b.pdf's uploaded handle and the later a.pdf entry.
C14_Witness ==
    /\ run.op = "ask"
    /\ Len(run.gens) = 2
    /\ ~external
    /\ doc_paths = <<DocPath("b.pdf"), DocPath("a.pdf")>>
    /\ remote = <<Handle("a.pdf", 1), Handle("a.pdf", 2), Handle("b.pdf", 3)>>
    /\ PayloadFiles(run.gens[2]) = <<Handle("b.pdf", 3), Handle("a.pdf", 2)>>

\* C15: without the credential no run gets past the check: the loader is
\* never invoked, no list-files, upload or generation call is issued, the
\* transcript is never created, and no input widget is ever rendered.
C15_MissingKeyHalts ==
    ~api_key =>
        /\ ~cache.built
        /\ docs_context = <<>>
        /\ ~has_messages
        /\ messages = <<>>
        /\ ~page.loaded
        /\ run.op \in {"none", "stop", "external"}
        /\ run.lists = <<>>
        /\ run.uploads = <<>>
        /\ run.gens = <<>>

\* A stopped run with local documents present and files held remotely.
C15_Witness ==
    /\ ~api_key
    /\ run.op = "stop"
    /\ page.error # ""
    /\ doc_paths # <<>>
    /\ remote # <<>>

\* Number of turns of the given role in a transcript.
TurnsOf(role, msgs) == Cardinality({i \in DOMAIN msgs : msgs[i].role = role})

\* C16: an assistant turn is never first, always follows a user turn
\* directly, and assistant turns never outnumber user turns.
C16_AssistantFollowsUser ==
    /\ \A i \in DOMAIN messages :
          messages[i].role = "assistant" => (i > 1 /\ messages[i - 1].role = "user")
    /\ \A i \in DOMAIN messages : messages[i].role \in {"user", "assistant"}
    /\ TurnsOf("assistant", messages) <= TurnsOf("user", messages)

\* A question that got no answer followed by an answered question: two
\* user turns, then one assistant turn.
C16_Witness ==
    /\ messages = <<Turn("user", "q2"), Turn("user", "q1"), Turn("assistant", "t1")>>
    /\ TurnsOf("assistant", messages) < TurnsOf("user", messages)

\* C17: a question submitted while docs_context is empty appends its user
\* turn and nothing else to the transcript.
C17_NoDocsAppendsUserOnly ==
    [][(run'.op = "ask" /\ docs_context' = <<>>) =>
        /\ messages' = Append(messages, Turn("user", run'.prompt))
        /\ TurnsOf("assistant", messages') = TurnsOf("assistant", messages)]_vars

\* Two questions submitted after every upload of a non-empty docs/ failed:
\* the store holds their two user turns.
C17_Witness ==
    /\ doc_paths # <<>>
    /\ cache.built
    /\ cache.value = <<>>
    /\ run.op = "ask"
    /\ Len(messages) = 2
    /\ messages[1].role = "user"
    /\ messages[2] = Turn("user", run.prompt)

\* No display name has been sent for upload more than once.
UploadedAtMostOnce == \A n \in Names : attempts[n] <= 1

\* After the build no step issues an upload call or changes the memoized
\* handle sequence.
LoadedSetFixed ==
    cache.built => (attempts' = attempts /\ cache' = cache /\ run'.uploads = <<>>)

\* C18: over the whole process lifetime every local file is sent for upload
\* at most once; once the build is done no question, rerun or reset uploads
\* again, so a file that failed stays out and an empty result stays empty.
C18_UploadAttemptedOnce == []UploadedAtMostOnce /\ [][LoadedSetFixed]_vars

\* A reset after a build in which the only upload attempted failed: the file
\* was tried once and no document is loaded.
C18_Witness ==
    /\ run.op = "reset"
    /\ cache.built
    /\ cache.value = <<>>
    /\ \E n \in LocalNames : attempts[n] = 1
    /\ page.sidebar = <<>>

\* C19: a reset leaves the memoized handle sequence, the remote listing and
\* the upload counts as they were and issues no list-files, upload or
\* generation call; the rerun binds docs_context to the memoized sequence.
C19_ResetTouchesTranscriptOnly ==
    [][run'.op = "reset" =>
        /\ cache' = cache
        /\ docs_context' = cache.value
        /\ run'.lists = <<>>
        /\ run'.uploads = <<>>
        /\ run'.gens = <<>>
        /\ UNCHANGED <<api_key, doc_paths, remote, nextId, attempts, external>>]_vars

\* A reset of a non-empty store while a memoized handle is no longer held
\* remotely.
C19_Witness ==
    /\ run.op = "reset"
    /\ run.cleared >= 1
    /\ external
    /\ \E i \in DOMAIN cache.value : cache.value[i] \notin Range(remote)
    /\ docs_context = cache.value

\* C20: a build that finds no local document issues neither the list-files
\* call nor an upload call, leaves the remote listing as it was, memoizes the
\* empty sequence and reports that no PDF file was found.
C20_EmptyScanSkipsRemote ==
    [][(BuildStep /\ doc_paths = <<>>) =>
        /\ run'.lists = <<>>
        /\ run'.uploads = <<>>
        /\ run'.reports = << <<"No PDF files found">> >>
        /\ cache'.value = <<>>
        /\ remote' = remote
        /\ nextId' = nextId
        /\ attempts' = attempts]_vars

\* The first page load with an empty docs folder while the service already
\* holds files.
C20_Witness ==
    /\ run.op = "load"
    /\ doc_paths = <<>>
    /\ cache.built
    /\ remote # <<>>
    /\ run.lists = <<>>
    /\ run.reports = << <<"No PDF files found">> >>
    /\ page.sidebar = <<>>

====
